---- MODULE Spec2Model ----
(***************************************************************************)
(* Model of "llm agent project/ollama_run.py": pdf_to_text and             *)
(* convert_pdf_pages_to_png, run any number of times over one input        *)
(* folder.  File names are sequences of one-character strings so that      *)
(* str.endswith, os.path.splitext, the f-string page names and sorted()    *)
(* are computed on the characters, as the code computes them.              *)
(***************************************************************************)
EXTENDS Integers, Sequences, FiniteSets, TLC

\* ------------------------------------------------------------------ bounds

\* Largest page count of a PDF of the input folder.
MaxPages == 2

\* Page count of the long document of InitLong (two-digit page numbers).
LongPages == 10

\* ------------------------------------------------------------- characters

Digits == <<"0", "1", "2", "3", "4", "5", "6", "7", "8", "9">>

Lower == <<"a", "b", "c", "d", "e", "f", "g", "h", "i", "j", "k", "l", "m",
           "n", "o", "p", "q", "r", "s", "t", "u", "v", "w", "x", "y", "z">>

IndexOf(seq, c) == CHOOSE i \in 1..Len(seq) : seq[i] = c

InSeq(seq, c) == \E i \in 1..Len(seq) : seq[i] = c

\* The code point of a character (Python compares str by code point).
Ord(c) ==
    IF c = "." THEN 46
    ELSE IF c = "_" THEN 95
    ELSE IF InSeq(Digits, c) THEN 47 + IndexOf(Digits, c)
    ELSE 96 + IndexOf(Lower, c)

\* a < b for two str values: the first differing character decides, and a
\* proper prefix is smaller.
RECURSIVE StrLess(_, _)
StrLess(a, b) ==
    IF b = <<>> THEN FALSE
    ELSE IF a = <<>> THEN TRUE
    ELSE IF Head(a) = Head(b) THEN StrLess(Tail(a), Tail(b))
    ELSE Ord(Head(a)) < Ord(Head(b))

\* sorted(names) of a set of distinct names.
RECURSIVE Sorted(_)
Sorted(S) ==
    IF S = {} THEN <<>>
    ELSE LET m == CHOOSE x \in S : \A y \in S : x = y \/ StrLess(x, y)
         IN  <<m>> \o Sorted(S \ {m})

\* name.endswith(suffix)
EndsWith(name, suffix) ==
    /\ Len(name) >= Len(suffix)
    /\ SubSeq(name, Len(name) - Len(suffix) + 1, Len(name)) = suffix

\* str(n) as the f-string formats an int: decimal, no padding.
RECURSIVE DecStr(_)
DecStr(n) ==
    IF n < 10 THEN <<Digits[n + 1]>>
    ELSE DecStr(n \div 10) \o <<Digits[(n % 10) + 1]>>

\* p.rfind("."), 0 when there is none (positions are 1-based here).
LastDot(p) ==
    IF \E i \in 1..Len(p) : p[i] = "."
    THEN CHOOSE i \in 1..Len(p) : p[i] = "." /\ \A j \in (i + 1)..Len(p) : p[j] # "."
    ELSE 0

\* os.path.splitext(p)[0] of a name without directory part: cut at the last
\* dot, unless only dots precede it.
SplitExtRoot(p) ==
    LET d == LastDot(p)
    IN  IF d > 0 /\ \E i \in 1..(d - 1) : p[i] # "."
        THEN SubSeq(p, 1, d - 1)
        ELSE p

DotPdf == <<".", "p", "d", "f">>

DotPng == <<".", "p", "n", "g">>

PageInfix == <<"_", "p", "a", "g", "e", "_">>

ResultsSuffix == <<"_", "r", "e", "s", "u", "l", "t", "s", ".", "t", "x", "t">>

ConvertedPngs == <<"c", "o", "n", "v", "e", "r", "t", "e", "d", "_", "p", "n", "g", "s">>

\* ------------------------------------------------------------- file names

APdf == <<"a", ".", "p", "d", "f">>

BPdf == <<"b", ".", "v", "1", ".", "p", "d", "f">>

CTxt == <<"c", ".", "t", "x", "t">>

DPdf == <<"d", "p", "d", "f">>

\* The entries of the input folder besides converted_pngs.
Names == {APdf, BPdf, CTxt, DPdf}

\* Variant: the test misses the dot, filename.endswith("pdf").
IsPdfNameNoDot(filename) == EndsWith(filename, <<"p", "d", "f">>)

\* if filename.endswith(".pdf")
IsPdfName(filename) == EndsWith(filename, DotPdf)

\* if page_filename.endswith(".png")
IsPngName(page_filename) == EndsWith(page_filename, DotPng)

\* pdf_name = os.path.splitext(filename)[0]
PdfName(filename) == SplitExtRoot(filename)

\* Variant: the file name carries the 0-based index.
PageNameZeroBased(page_number) == page_number

\* The page number the file name of page doc[page_number] carries.
PageName(page_number) == page_number + 1

\* f"{pdf_name}_page_{n}.png"
PngName(pdf_name, n) == pdf_name \o PageInfix \o DecStr(n) \o DotPng

\* f"{pdf_name}_results.txt"
ResultsName(pdf_name) == pdf_name \o ResultsSuffix

\* Every name a per-document subfolder could carry.
Stems == {PdfName(f) : f \in Names \cup {ConvertedPngs}}

\* ------------------------------------------------------------------ state

NoFile == <<"-">>

RunnerOutcomes == {"ok", "nonzero", "missing"}

VARIABLES
    folder,       \* input folder: entry name -> page count of its content
    rootExists,   \* converted_pngs exists
    subdirs,      \* stems whose subfolder converted_pngs/<stem> exists
    outdir,       \* stem -> the file names in converted_pngs/<stem>
    results,      \* stem -> content of <stem>_results.txt: sequence of blocks
    runnerEnv,    \* what an "ollama run" on this machine can do
    pc,           \* position of the program
    todo,         \* os.listdir(folder_path), the part not yet iterated
    cur,          \* filename of the loop at line 98
    docLen,       \* len(doc)
    page_number,  \* loop variable of line 66
    convOk,       \* value returned by convert_pdf_pages_to_png
    queue,        \* sorted(os.listdir(pdf_output_folder))
    idx,          \* position in queue of the loop at line 111
    outfileOpen,  \* the with-block of line 110 holds outfile open
    inflight,     \* page files whose "ollama run" process is running
    written,      \* history: files saved by the current rasterizer call
    calls,        \* history: runner invocations for the current PDF
    convResult,   \* history: filename -> rasterizer result in this run
    crashAt       \* history: where an exception left pdf_to_text

vars == <<folder, rootExists, subdirs, outdir, results, runnerEnv, pc, todo, cur,
          docLen, page_number, convOk, queue, idx, outfileOpen, inflight,
          written, calls, convResult, crashAt>>

fsVars == <<rootExists, subdirs, outdir, results>>

loopVars == <<todo, cur>>

convVars == <<docLen, page_number, convOk, written>>

extractVars == <<queue, idx, outfileOpen, inflight, calls>>

NoResult == [f \in Names \cup {ConvertedPngs} |-> "none"]

\* The input folder of a first run: every entry present, nothing converted.
InitWith(APages) ==
    /\ \E a \in APages, b \in 0..MaxPages :
          folder = [f \in Names |-> IF f = APdf THEN a ELSE IF f = BPdf THEN b ELSE 1]
    /\ rootExists = FALSE
    /\ subdirs = {}
    /\ outdir = [s \in Stems |-> {}]
    /\ results = [s \in Stems |-> <<>>]
    /\ pc = "idle"
    /\ todo = <<>>
    /\ cur = NoFile
    /\ docLen = 0
    /\ page_number = 0
    /\ convOk = FALSE
    /\ queue = <<>>
    /\ idx = 1
    /\ outfileOpen = FALSE
    /\ inflight = {}
    /\ written = {}
    /\ calls = <<>>
    /\ convResult = NoResult
    /\ crashAt = "none"

Init ==
    /\ runnerEnv \in {RunnerOutcomes} \cup {{o} : o \in RunnerOutcomes}
    /\ InitWith(0..MaxPages)

\* A folder whose a.pdf has LongPages pages, on a machine whose runner
\* behaves the same way at every invocation.
InitLong ==
    /\ runnerEnv \in {{o} : o \in RunnerOutcomes}
    /\ InitWith({LongPages})

\* ---------------------------------------------------------------- helpers

\* What one outfile.write appends: the runner's stdout, or an error line
\* naming the page.  fresh is history: written by the run in progress.
Block(kind, page_filename) == [kind |-> kind, page |-> page_filename, fresh |-> TRUE]

\* outfile.write(result.stdout + "\n")
WriteStdout(content, page_filename) == Append(content, Block("stdout", page_filename))

\* Variant: a non-zero exit is only printed, nothing is written.
WriteErrorDropped(content, page_filename) == content

\* outfile.write(f"Error processing {page_filename}: {result.stderr}\n")
WriteError(content, page_filename) == Append(content, Block("error", page_filename))

\* outfile.write(f"Error processing {page_filename}: Ollama CLI not found\n")
WriteNotFound(content, page_filename) == Append(content, Block("notfound", page_filename))

\* Variant: the file is opened with mode "a".
OpenForAppend(content) == content

\* open(pdf_output_file, "w"): the content right after opening.
OpenForWrite(content) == <<>>

\* Variant: the result of the rasterizer is ignored.
EntersExtractionAlways(ok) == TRUE

\* if convert_pdf_pages_to_png(...): whether extraction is entered.
EntersExtraction(ok) == ok

\* Variant: no except clause for FileNotFoundError.
FileNotFoundUncaught == FALSE

\* except FileNotFoundError: the exception of a missing executable is handled.
CatchesFileNotFound == TRUE

\* Variant: the child is started with Popen and not waited for.
RunDoesNotWait == FALSE

\* subprocess.run returns only when the child has exited.
RunWaitsForExit == TRUE

\* History bookkeeping at the start of a run: blocks on disk are old.
Stale(content) == [i \in 1..Len(content) |-> [content[i] EXCEPT !.fresh = FALSE]]

Idle == pc = "idle"

Reverse(seq) == [i \in 1..Len(seq) |-> seq[Len(seq) + 1 - i]]

\* os.listdir(folder_path): the entries in an order the file system chooses
\* (here: by name, ascending or descending).
ListDir == {Sorted(Names \cup {ConvertedPngs}), Reverse(Sorted(Names \cup {ConvertedPngs}))}

\* ---------------------------------------------------------- environment

\* Between runs a.pdf is replaced by a PDF of another length (b.v1.pdf is
\* the document that stays as it is).
ReplacePdf ==
    /\ Idle
    /\ \E n \in 0..MaxPages :
          /\ n # folder[APdf]
          /\ folder' = [folder EXCEPT ![APdf] = n]
    /\ UNCHANGED <<fsVars, runnerEnv, pc, loopVars, convVars, extractVars,
                   convResult, crashAt>>

\* ------------------------------------------------------------ pdf_to_text

\* Lines 94-98: os.makedirs(output_folder, exist_ok=True), then os.listdir.
StartRun ==
    /\ Idle
    /\ rootExists' = TRUE
    /\ todo' \in ListDir
    /\ results' = [s \in Stems |-> Stale(results[s])]
    /\ pc' = "loop"
    /\ UNCHANGED <<folder, subdirs, outdir, runnerEnv, cur, convVars,
                   extractVars, convResult, crashAt>>

\* Line 95 raises (the folder is not writable): nothing catches it.
StartRunFails ==
    /\ Idle
    /\ ~rootExists
    /\ pc' = "crashed"
    /\ crashAt' = "makedirs_root"
    /\ UNCHANGED <<folder, fsVars, runnerEnv, loopVars, convVars, extractVars,
                   convResult>>

\* Lines 98-99: an entry whose name does not end in ".pdf".
SkipEntry ==
    /\ pc = "loop"
    /\ todo # <<>>
    /\ ~IsPdfName(Head(todo))
    /\ todo' = Tail(todo)
    /\ UNCHANGED <<folder, fsVars, runnerEnv, pc, cur, convVars, extractVars,
                   convResult, crashAt>>

\* Lines 99-109: the per-document subfolder is made and the rasterizer called.
BeginPdf ==
    /\ pc = "loop"
    /\ todo # <<>>
    /\ IsPdfName(Head(todo))
    /\ cur' = Head(todo)
    /\ todo' = Tail(todo)
    /\ subdirs' = subdirs \cup {PdfName(Head(todo))}
    /\ pc' = "convert"
    /\ docLen' = 0
    /\ page_number' = 0
    /\ written' = {}
    /\ calls' = <<>>
    /\ UNCHANGED <<folder, rootExists, outdir, results, runnerEnv, convOk,
                   queue, idx, outfileOpen, inflight, convResult, crashAt>>

\* Line 103 raises: nothing catches it.
BeginPdfFails ==
    /\ pc = "loop"
    /\ todo # <<>>
    /\ IsPdfName(Head(todo))
    /\ PdfName(Head(todo)) \notin subdirs
    /\ cur' = Head(todo)
    /\ todo' = Tail(todo)
    /\ pc' = "crashed"
    /\ crashAt' = "makedirs_pdf"
    /\ UNCHANGED <<folder, fsVars, runnerEnv, convVars, extractVars, convResult>>

\* ----------------------------------------------- convert_pdf_pages_to_png

\* Line 64: doc = fitz.open(pdf_path)
OpenDoc ==
    /\ pc = "convert"
    /\ docLen' = folder[cur]
    /\ page_number' = 0
    /\ pc' = "render"
    /\ UNCHANGED <<folder, fsVars, runnerEnv, loopVars, convOk, written,
                   extractVars, convResult, crashAt>>

\* Line 64 raises (unreadable or corrupt file); lines 75-77 return False.
OpenDocFails ==
    /\ pc = "convert"
    /\ convOk' = FALSE
    /\ convResult' = [convResult EXCEPT ![cur] = "failed"]
    /\ pc' = "converted"
    /\ UNCHANGED <<folder, fsVars, runnerEnv, loopVars, docLen, page_number,
                   written, extractVars, crashAt>>

\* Lines 66-71: one iteration, the page is saved.
RenderPage ==
    /\ pc = "render"
    /\ page_number < docLen
    /\ LET output_file == PngName(PdfName(cur), PageName(page_number))
       IN  /\ outdir' = [outdir EXCEPT ![PdfName(cur)] = @ \cup {output_file}]
           /\ written' = written \cup {output_file}
    /\ page_number' = page_number + 1
    /\ UNCHANGED <<folder, rootExists, subdirs, results, runnerEnv, pc, loopVars,
                   docLen, convOk, extractVars, convResult, crashAt>>

\* Lines 68-71 raise for the page; lines 75-77 return False, earlier pages stay.
RenderPageFails ==
    /\ pc = "render"
    /\ page_number < docLen
    /\ convOk' = FALSE
    /\ convResult' = [convResult EXCEPT ![cur] = "failed"]
    /\ pc' = "converted"
    /\ UNCHANGED <<folder, fsVars, runnerEnv, loopVars, docLen, page_number,
                   written, extractVars, crashAt>>

\* Lines 72-74: the loop is over, doc.close(), return True.
CloseDoc ==
    /\ pc = "render"
    /\ page_number = docLen
    /\ convOk' = TRUE
    /\ convResult' = [convResult EXCEPT ![cur] = "ok"]
    /\ pc' = "converted"
    /\ UNCHANGED <<folder, fsVars, runnerEnv, loopVars, docLen, page_number,
                   written, extractVars, crashAt>>

\* ------------------------------------------------- pdf_to_text, extraction

\* Lines 109-111: the results file is opened for writing and the subfolder
\* listed and sorted (the listing holds the results file itself).
OpenResults ==
    /\ pc = "converted"
    /\ EntersExtraction(convOk)
    /\ LET pdf_name == PdfName(cur)
           listing == outdir[pdf_name] \cup {ResultsName(pdf_name)}
       IN  /\ outdir' = [outdir EXCEPT ![pdf_name] = listing]
           /\ results' = [results EXCEPT ![pdf_name] = OpenForWrite(@)]
           /\ queue' = Sorted(listing)
    /\ idx' = 1
    /\ outfileOpen' = TRUE
    /\ pc' = "extract"
    /\ UNCHANGED <<folder, rootExists, subdirs, runnerEnv, loopVars, convVars,
                   inflight, calls, convResult, crashAt>>

\* Line 110 raises (the results file cannot be created): nothing catches it.
OpenResultsFails ==
    /\ pc = "converted"
    /\ EntersExtraction(convOk)
    /\ ResultsName(PdfName(cur)) \notin outdir[PdfName(cur)]
    /\ pc' = "crashed"
    /\ crashAt' = "open_results"
    /\ UNCHANGED <<folder, fsVars, runnerEnv, loopVars, convVars, extractVars,
                   convResult>>

\* Line 109 is false: straight to line 133.
SkipExtraction ==
    /\ pc = "converted"
    /\ ~EntersExtraction(convOk)
    /\ pc' = "finished"
    /\ UNCHANGED <<folder, fsVars, runnerEnv, loopVars, convVars, extractVars,
                   convResult, crashAt>>

\* Lines 111-112: a listed file that is no PNG.
SkipNonPng ==
    /\ pc = "extract"
    /\ idx <= Len(queue)
    /\ ~IsPngName(queue[idx])
    /\ idx' = idx + 1
    /\ UNCHANGED <<folder, fsVars, runnerEnv, pc, loopVars, convVars, queue,
                   outfileOpen, inflight, calls, convResult, crashAt>>

\* Lines 116 and 130-132: the executable is not found.
RunnerNotFound ==
    /\ pc = "extract"
    /\ idx <= Len(queue)
    /\ IsPngName(queue[idx])
    /\ "missing" \in runnerEnv
    /\ calls' = Append(calls, [page |-> queue[idx], outcome |-> "missing"])
    /\ IF CatchesFileNotFound
       THEN /\ results' = [results EXCEPT ![PdfName(cur)] = WriteNotFound(@, queue[idx])]
            /\ idx' = idx + 1
            /\ UNCHANGED <<pc, crashAt>>
       ELSE /\ pc' = "crashed"
            /\ crashAt' = "runner"
            /\ UNCHANGED <<results, idx>>
    /\ UNCHANGED <<folder, rootExists, subdirs, outdir, runnerEnv, loopVars,
                   convVars, queue, outfileOpen, inflight, convResult>>

\* Lines 116-123: the child process is started.
RunnerStart ==
    /\ pc = "extract"
    /\ idx <= Len(queue)
    /\ IsPngName(queue[idx])
    /\ runnerEnv \ {"missing"} # {}
    /\ inflight' = inflight \cup {queue[idx]}
    /\ IF RunWaitsForExit
       THEN pc' = "running" /\ UNCHANGED idx
       ELSE idx' = idx + 1 /\ UNCHANGED pc
    /\ UNCHANGED <<folder, fsVars, runnerEnv, loopVars, convVars, queue,
                   outfileOpen, calls, convResult, crashAt>>

\* Lines 124-129: the child has exited; one block is written for its page.
RunnerReturn ==
    /\ \E page_filename \in inflight, outcome \in runnerEnv \ {"missing"} :
          /\ inflight' = inflight \ {page_filename}
          /\ calls' = Append(calls, [page |-> page_filename, outcome |-> outcome])
          /\ results' = [results EXCEPT ![PdfName(cur)] =
                           IF outcome = "nonzero"
                           THEN WriteError(@, page_filename)
                           ELSE WriteStdout(@, page_filename)]
    /\ IF pc = "running"
       THEN pc' = "extract" /\ idx' = idx + 1
       ELSE UNCHANGED <<pc, idx>>
    /\ UNCHANGED <<folder, rootExists, subdirs, outdir, runnerEnv, loopVars,
                   convVars, queue, outfileOpen, convResult, crashAt>>

\* Line 111 is exhausted: the with-block closes outfile.
CloseResults ==
    /\ pc = "extract"
    /\ idx > Len(queue)
    /\ outfileOpen' = FALSE
    /\ pc' = "finished"
    /\ UNCHANGED <<folder, fsVars, runnerEnv, loopVars, convVars, queue, idx,
                   inflight, calls, convResult, crashAt>>

\* Line 133, and the loop of line 98 goes on.
FinishPdf ==
    /\ pc = "finished"
    /\ pc' = "loop"
    /\ UNCHANGED <<folder, fsVars, runnerEnv, loopVars, convVars, extractVars,
                   convResult, crashAt>>

\* Line 135: print("All PDFs processed successfully!")
Done ==
    /\ pc = "loop"
    /\ todo = <<>>
    /\ pc' = "done"
    /\ UNCHANGED <<folder, fsVars, runnerEnv, loopVars, convVars, extractVars,
                   convResult, crashAt>>

\* Line 146, or the traceback of an uncaught exception: the process is gone.
ProgramExit ==
    /\ pc \in {"done", "crashed"}
    /\ pc' = "idle"
    /\ todo' = <<>>
    /\ cur' = NoFile
    /\ docLen' = 0
    /\ page_number' = 0
    /\ convOk' = FALSE
    /\ written' = {}
    /\ queue' = <<>>
    /\ idx' = 1
    /\ outfileOpen' = FALSE
    /\ inflight' = {}
    /\ calls' = <<>>
    /\ convResult' = NoResult
    /\ crashAt' = "none"
    /\ UNCHANGED <<folder, fsVars, runnerEnv>>

Next ==
    \/ ReplacePdf
    \/ StartRun
    \/ StartRunFails
    \/ SkipEntry
    \/ BeginPdf
    \/ BeginPdfFails
    \/ OpenDoc
    \/ OpenDocFails
    \/ RenderPage
    \/ RenderPageFails
    \/ CloseDoc
    \/ OpenResults
    \/ OpenResultsFails
    \/ SkipExtraction
    \/ SkipNonPng
    \/ RunnerNotFound
    \/ RunnerStart
    \/ RunnerReturn
    \/ CloseResults
    \/ FinishPdf
    \/ Done
    \/ ProgramExit

Spec == Init /\ [][Next]_vars

SpecLong == InitLong /\ [][Next]_vars

\* ----------------------------------------------------- notions of the claims

\* Entries whose name ends in ".pdf".
PdfEntries == {f \in Names \cup {ConvertedPngs} : EndsWith(f, <<".", "p", "d", "f">>)}

\* The file name without its last four characters, the extension ".pdf".
StemOf(f) == SubSeq(f, 1, Len(f) - 4)

\* <stem>_page_<n>.png
PagePng(stem, n) == stem \o <<"_", "p", "a", "g", "e", "_">> \o DecStr(n) \o <<".", "p", "n", "g">>

\* The PNG files of a subfolder.
PngsIn(stem) == {n \in outdir[stem] : EndsWith(n, <<".", "p", "n", "g">>)}

\* The PNG names of a listing, in its order.
PngSeq(listing) == SelectSeq(listing, LAMBDA n : EndsWith(n, <<".", "p", "n", "g">>))

AllFresh(content) == \A i \in 1..Len(content) : content[i].fresh

AllStale(content) == \A i \in 1..Len(content) : ~content[i].fresh

\* Extraction of f has been entered in this run.
ExtractionEntered(f) ==
    /\ convResult[f] = "ok"
    /\ cur = f => pc \in {"extract", "running", "finished", "loop", "done"}

\* Extraction of f is over in this run.
ExtractionOver(f) ==
    /\ convResult[f] = "ok"
    /\ cur = f => pc \in {"finished", "loop", "done"}

\* The page number a block's file name carries.
PageNo(stem, page_filename) == CHOOSE n \in 1..(LongPages + MaxPages) : PagePng(stem, n) = page_filename

\* ------------------------------------------------------------------ claims

\* C1: when convert_pdf_pages_to_png returns True for a PDF of N pages, the
\* call has written exactly N PNG files into the destination folder, named
\* <stem>_page_1.png .. <stem>_page_N.png, <stem> being the file name without
\* its extension.
Thm_C1 ==
    (pc = "converted" /\ convOk) =>
        /\ written = {PagePng(StemOf(cur), n) : n \in 1..folder[cur]}
        /\ Cardinality(written) = folder[cur]
        /\ written \subseteq outdir[StemOf(cur)]

Witness_C1 == pc = "converted" /\ convOk /\ folder[cur] >= 2 /\ Cardinality(written) >= 2

\* C2: after a completed run, the results file of a PDF that has N pages holds
\* at most N blocks, and exactly N when its rasterization succeeded in the run.
CE_C2 ==
    pc = "done" =>
        \A f \in PdfEntries :
            /\ Len(results[StemOf(f)]) <= folder[f]
            /\ convResult[f] = "ok" => Len(results[StemOf(f)]) = folder[f]

\* C3: the blocks of a results file are in ascending page-number order,
\* whatever the number of pages.
CE_C3 ==
    \A f \in PdfEntries :
        LET content == results[StemOf(f)]
        IN  \A i \in 1..(Len(content) - 1) :
                PageNo(StemOf(f), content[i].page) < PageNo(StemOf(f), content[i + 1].page)

\* C4: when the rasterizer returns False for a PDF, the run invokes the runner
\* zero times for it and neither creates, truncates nor writes its results
\* file (an earlier run's content stays), and the PNGs written before the
\* failure stay on disk.
Thm_C4 ==
    /\ [](\A f \in PdfEntries :
            convResult[f] = "failed" =>
                /\ AllStale(results[StemOf(f)])
                /\ cur = f => (calls = <<>> /\ inflight = {} /\ ~outfileOpen
                               /\ written \subseteq outdir[StemOf(f)]))
    /\ [][(pc = "converted" /\ ~convOk) =>
            (results' = results /\ outdir' = outdir /\ calls' = calls)]_vars

Witness_C4 ==
    /\ pc = "finished"
    /\ ~convOk
    /\ convResult[cur] = "failed"
    /\ written # {}
    /\ results[StemOf(cur)] # <<>>

\* C5: on a machine where the runner executable is never found, every PDF
\* whose rasterization succeeded gets a results file with one error line per
\* page and no model output, no runner process ever runs, and no exception
\* of a runner invocation leaves pdf_to_text.
Thm_C5 ==
    runnerEnv = {"missing"} =>
        /\ inflight = {}
        /\ crashAt # "runner"
        /\ \A f \in PdfEntries :
              ExtractionOver(f) =>
                  LET content == results[StemOf(f)]
                  IN  /\ \A i \in 1..Len(content) :
                            content[i].kind = "notfound" /\ content[i].fresh
                      /\ \A n \in 1..folder[f] :
                            Cardinality({i \in 1..Len(content) :
                                content[i].page = PagePng(StemOf(f), n)}) = 1
                      /\ Len(content) = Cardinality(PngsIn(StemOf(f)))

Witness_C5 ==
    /\ runnerEnv = {"missing"}
    /\ pc = "done"
    /\ \E f \in PdfEntries :
          /\ convResult[f] = "ok"
          /\ folder[f] >= 2
          /\ Len(results[StemOf(f)]) >= 2

\* C6: every PNG the extraction loop has passed has exactly one block, in the
\* loop's order: an error line naming the page after a non-zero exit, the
\* runner's output after exit 0; no page is invoked twice, and at the end of
\* the loop every PNG of the subfolder has its block.
Thm_C6 ==
    (pc \in {"extract", "running", "finished"} /\ convOk) =>
        LET content == results[StemOf(cur)]
            passed == PngSeq(SubSeq(queue, 1, idx - 1))
        IN  /\ Len(content) = Len(passed)
            /\ Len(calls) = Len(passed)
            /\ \A i \in 1..Len(passed) :
                  /\ i <= Len(calls) => calls[i].page = passed[i]
                  /\ i <= Len(content) =>
                        /\ content[i].page = passed[i]
                        /\ i <= Len(calls) =>
                              content[i].kind =
                                  CASE calls[i].outcome = "nonzero" -> "error"
                                    [] calls[i].outcome = "ok" -> "stdout"
                                    [] calls[i].outcome = "missing" -> "notfound"
            /\ \A i, j \in 1..Len(calls) : calls[i].page = calls[j].page => i = j
            /\ pc = "finished" => Len(content) = Cardinality(PngsIn(StemOf(cur)))

Witness_C6 ==
    /\ pc = "finished"
    /\ convOk
    /\ Len(calls) >= 2
    /\ calls[1].outcome = "nonzero"
    /\ calls[2].outcome = "ok"
    /\ results[StemOf(cur)][1].kind = "error"
    /\ results[StemOf(cur)][2].kind = "stdout"

\* C7: only a failure creating converted_pngs aborts a run; whatever else
\* fails, the rasterizer is invoked for every PDF of the folder.
CE_C7 ==
    /\ pc = "crashed" => crashAt = "makedirs_root"
    /\ (pc \in {"done", "crashed"} /\ crashAt # "makedirs_root") =>
          \A f \in PdfEntries : convResult[f] # "none"

\* C8 as stated: after a completed run every results file holds only blocks
\* written by that run.
CE_C8 == pc = "done" => \A f \in PdfEntries : AllFresh(results[StemOf(f)])

\* C8 amended: a results file never mixes blocks of two runs; once a run has
\* opened the results file of a PDF (its rasterization succeeded) the file
\* holds only blocks of that run; a run changes no results file but that of
\* the current PDF after its rasterization succeeded, so every other file
\* keeps the earlier run's blocks; no step removes a PNG.
Thm_C8 ==
    /\ [](\A f \in PdfEntries :
            /\ AllFresh(results[StemOf(f)]) \/ AllStale(results[StemOf(f)])
            /\ ExtractionEntered(f) => AllFresh(results[StemOf(f)]))
    /\ [][\A st \in Stems :
            /\ PngsIn(st) \subseteq PngsIn(st)'
            /\ (pc # "idle" /\ results'[st] # results[st]) =>
                  (cur \in PdfEntries /\ st = StemOf(cur) /\ convResult[cur] = "ok")]_vars

Witness_C8 ==
    /\ pc = "done"
    /\ \E f, g \in PdfEntries :
          /\ convResult[f] = "ok"
          /\ results[StemOf(f)] # <<>>
          /\ AllFresh(results[StemOf(f)])
          /\ Cardinality(PngsIn(StemOf(f))) > folder[f]
          /\ convResult[g] = "failed"
          /\ results[StemOf(g)] # <<>>
          /\ AllStale(results[StemOf(g)])

\* C9: an entry whose name does not end in ".pdf" is never handed to the
\* rasterizer, gets no subfolder, PNG or results file, and no run changes an
\* entry of the input folder; subfolders exist for ".pdf" entries only.
Thm_C9 ==
    /\ [](/\ \A f \in (Names \cup {ConvertedPngs}) \ PdfEntries :
                /\ cur # f
                /\ convResult[f] = "none"
                /\ SplitExtRoot(f) \notin subdirs
                /\ outdir[SplitExtRoot(f)] = {}
                /\ results[SplitExtRoot(f)] = <<>>
          /\ subdirs \subseteq {StemOf(f) : f \in PdfEntries}
          /\ \A st \in Stems \ subdirs : outdir[st] = {} /\ results[st] = <<>>)
    /\ [][pc # "idle" => folder' = folder]_vars

Witness_C9 ==
    /\ pc = "done"
    /\ subdirs = {StemOf(f) : f \in PdfEntries}
    /\ \A f \in PdfEntries : convResult[f] = "ok" /\ PngsIn(StemOf(f)) # {}

\* C10: at most one runner process exists at a time; it runs only when every
\* page of its PDF is rendered, the results file is open and the blocks of
\* all earlier pages are written; while a PDF is rasterized no runner runs,
\* no results file is open and every PDF extracted before has all its blocks.
Thm_C10 ==
    /\ Cardinality(inflight) <= 1
    /\ inflight # {} =>
          /\ pc = "running"
          /\ inflight = {queue[idx]}
          /\ outfileOpen
          /\ convResult[cur] = "ok"
          /\ page_number = folder[cur]
          /\ Len(results[StemOf(cur)]) = Len(PngSeq(SubSeq(queue, 1, idx - 1)))
    /\ pc \in {"convert", "render"} =>
          /\ inflight = {}
          /\ ~outfileOpen
          /\ calls = <<>>
          /\ \A f \in PdfEntries :
                convResult[f] = "ok" =>
                    Len(results[StemOf(f)]) = Cardinality(PngsIn(StemOf(f)))
    /\ outfileOpen => pc \in {"extract", "running"}

Witness_C10 ==
    /\ pc = "running"
    /\ inflight # {}
    /\ Len(results[StemOf(cur)]) >= 1
    /\ \E f \in PdfEntries : f # cur /\ convResult[f] = "ok" /\ results[StemOf(f)] # <<>>

====
